---- MODULE Spec2Model ----
(***************************************************************************)
(* Pointer-reactive node animations of the treenode2 repository.           *)
(*   variant A: forest of 10-node tree glyphs   (bannerTreeCanvas script)  *)
(*   variant B: canopy + trunk point cloud      (assets/js/tree-canvas.js) *)
(*                                                                         *)
(* Numbers.  The scripts compute in IEEE doubles; the model computes in    *)
(* fixed point on 32-bit integers:                                         *)
(*   positions, anchors, pointer   tenths of a CSS pixel                   *)
(*   tree centre and scale         hundredths of a pixel (exact products   *)
(*                                 of a sample and an integer dimension)   *)
(*   velocities                    thousandths of a pixel per 1/60 s frame *)
(*   Math.random() samples         hundredths, 0..99  (the range [0,1))    *)
(*   timestamps, dt                milliseconds                            *)
(* NonFinite stands for NaN / Infinity.                                    *)
(***************************************************************************)
EXTENDS Integers, Sequences, FiniteSets, TLC

\* ------------------------------------------------------------------ bounds
treeCount == 2          \* CFG.treeCount (10 in the source), bounded
canopyNodes == 2        \* CFG.canopyNodes (220 in the source), bounded
trunkNodes == 2         \* CFG.trunkNodes (45 in the source), bounded
MaxEvents == 3          \* handler runs explored after the script has loaded
MaxCalls == 2           \* chooseTreeCenter calls explored in SpecPlace
MaxTicks == 200         \* integrator ticks explored in SpecLab

\* --------------------------------------------------------------- numerics
NonFinite == 2000000000

Abs(a) == IF a < 0 THEN -a ELSE a
Sgn(a) == IF a < 0 THEN -1 ELSE 1
Min(a, b) == IF a < b THEN a ELSE b
Max(a, b) == IF a > b THEN a ELSE b

\* a * num / den, rounded to nearest (half away from zero)
MulDiv(a, num, den) == Sgn(a) * ((Abs(a) * num + den \div 2) \div den)

\* Math.floor(Math.sqrt(n)) by Newton's iteration from x >= sqrt(n) > 0
RECURSIVE Newton(_, _)
Newton(n, x) == IF (x + n \div x) \div 2 >= x THEN x
                ELSE Newton(n, (x + n \div x) \div 2)
ISqrtFrom(n, x) == IF n = 0 THEN 0 ELSE Newton(n, x)
ISqrt(n) == ISqrtFrom(n, Min(n, 46340))

\* Math.sqrt(dx*dx + dy*dy); operands beyond 30000 are scaled down by 100
\* before squaring so that the sum of squares stays below 2^31
Hypot(a, b) == ISqrtFrom(a * a + b * b, a + b)
Dist(dx, dy) ==
  IF Max(Abs(dx), Abs(dy)) <= 30000
  THEN Hypot(Abs(dx), Abs(dy))
  ELSE 100 * Hypot(Abs(dx) \div 100, Abs(dy) \div 100)

\* clamp(v, lo, hi) of variant A
clamp(v, lo, hi) == Max(lo, Min(hi, v))

\* ---------------------------------------------------------- random source
\* Math.random() is modelled by a stream: a finite sequence of samples
\* (hundredths) read cyclically from a position.
Rnd(st) == st.seq[(st.pos % Len(st.seq)) + 1]
Adv(st, k) == [st EXCEPT !.pos = st.pos + k]
Stream(s) == [seq |-> s, pos |-> 0]

\* ------------------------------------------------- variant A configuration
nodesPerTree == 10
minScale == 26
maxScale == 44
spring == 55            \* 0.055, thousandths
dampingA == 86          \* 0.86, hundredths
maxSpeed == 7000        \* 7.0 px per frame
hoverRadius == 950      \* 95 px
repelStrengthA == 115   \* 1.15, hundredths
pushA == 16
noiseStrength == 20     \* 0.20, hundredths
safeCenterXMin == 34    \* 0.34
safeCenterXMax == 66
safeCenterYMin == 22
safeCenterYMax == 78
MaxTries == 40
RelaxAfter == 15

\* template offsets in hundredths, (0,0) is the tree centre
TREE_TEMPLATE ==
  << <<0, -55>>, <<-18, -40>>, <<18, -40>>, <<-32, -20>>, <<32, -20>>,
     <<-38, 10>>, <<38, 10>>, <<-12, 10>>, <<12, 18>>, <<0, 42>> >>

CFGZone == [xmin |-> safeCenterXMin, xmax |-> safeCenterXMax,
            ymin |-> safeCenterYMin, ymax |-> safeCenterYMax]

\* ------------------------------------------------ variant A: placement
inSafeBox(nx, ny, z) ==
  nx > z.xmin /\ nx < z.xmax /\ ny > z.ymin /\ ny < z.ymax

edgeBias(nx, ny) == nx < 20 \/ nx > 80 \/ ny < 25 \/ ny > 85

\* mutant: the relaxed return forgets the safe-zone test
tryAcceptsRelaxedAnywhere(nx, ny, tries, z) ==
  \/ ~inSafeBox(nx, ny, z) /\ edgeBias(nx, ny)
  \/ tries > RelaxAfter

\* the two return statements of one loop iteration
tryAccepts(nx, ny, tries, z) ==
  \/ ~inSafeBox(nx, ny, z) /\ edgeBias(nx, ny)
  \/ ~inSafeBox(nx, ny, z) /\ tries > RelaxAfter

\* mutant: off by one, a 41st candidate
loopContinuesInclusive(tries) == tries <= MaxTries

\* the loop condition  tries < 40
loopContinues(tries) == tries < MaxTries

\* [nx * W, ny * H] in hundredths of a pixel
scaledPoint(nx, ny, w, h) == [x |-> nx * w, y |-> ny * h]

\* value of tries at which the for loop ends
loopExit == CHOOSE k \in 0..(MaxTries + 1) :
              ~loopContinues(k) /\ \A j \in 0..(k - 1) : loopContinues(j)

\* chooseTreeCenter() run to completion on a stream: try k reads samples
\* 2k and 2k+1; the first accepted try returns, else the fallback does.
\* Returns the point, the stream after the call, the path and the tries.
chooseTreeCenter(st, w, h, z) ==
  LET ok == {k \in 0..(loopExit - 1) :
               tryAccepts(Rnd(Adv(st, 2 * k)), Rnd(Adv(st, 2 * k + 1)), k, z)}
      k0 == IF ok = {} THEN loopExit
            ELSE CHOOSE k \in ok : \A j \in ok : k <= j
  IN [pt |-> scaledPoint(Rnd(Adv(st, 2 * k0)), Rnd(Adv(st, 2 * k0 + 1)), w, h),
      st |-> Adv(st, 2 * k0 + 2),
      path |-> IF ok = {} THEN "fallback" ELSE "loop",
      tries |-> k0]

\* rand(lo, hi) with lo, hi in pixels; result in hundredths of a pixel
rand(r, lo, hi) == lo * 100 + r * (hi - lo)

\* a node created away from its anchor
makeNodeAtOrigin(x, y, g) == [ax |-> x, ay |-> y, x |-> 0, y |-> 0,
                              vx |-> 0, vy |-> 0, gen |-> g]

\* makeNode(x, y) of variant B and the node literal of initForest; gen is
\* the identity of the allocation (which regeneration created the object)
makeNode(x, y, g) == [ax |-> x, ay |-> y, x |-> x, y |-> y,
                      vx |-> 0, vy |-> 0, gen |-> g]

\* an anchor that leaves the scale out
anchorOfUnscaled(c, t, scale) == MulDiv(c * 100 + t * 100, 1, 1000)

\* anchor coordinate  c + t * scale  (c, scale in hundredths of a pixel,
\* t in hundredths), in tenths of a pixel
anchorOf(c, t, scale) == MulDiv(c * 100 + t * scale, 1, 1000)

\* TREE_TEMPLATE.slice(0, CFG.nodesPerTree).map(...)
templateNodes(cx, cy, scale, g) ==
  [i \in 1..Min(nodesPerTree, Len(TREE_TEMPLATE)) |->
     makeNode(anchorOf(cx, TREE_TEMPLATE[i][1], scale),
              anchorOf(cy, TREE_TEMPLATE[i][2], scale), g)]

\* initForest(): state.trees = []; then treeCount times choose a centre,
\* draw a scale, build the nodes and push the tree
RECURSIVE forestLoop(_, _, _, _, _, _)
forestLoop(acc, t, st, w, h, g) ==
  IF t >= treeCount THEN acc
  ELSE LET c == chooseTreeCenter(st, w, h, CFGZone)
           scale == rand(Rnd(c.st), minScale, maxScale)
           tree == [cx |-> c.pt.x, cy |-> c.pt.y, scale |-> scale,
                    nodes |-> templateNodes(c.pt.x, c.pt.y, scale, g)]
       IN forestLoop(Append(acc, tree), t + 1, Adv(c.st, 1), w, h, g)
initForest(st, w, h, g) == forestLoop(<<>>, 0, st, w, h, g)

\* ----------------------------------------------- variant B configuration
repelRadius == 1100     \* 110 px
repelStrengthB == 55    \* 0.55, hundredths
returnStrength == 60    \* 0.06, thousandths
dampingB == 86          \* 0.86, hundredths
pushB == 18
linkDist == 340         \* 34 px
linkAlpha == 22         \* 0.22, hundredths

\* ------------------------------------------------ variant B: placement
\* -2 * ln(u) in ten-thousandths, for u = 0.01 .. 0.99
NegTwoLnTable ==
  <<92103, 78240, 70131, 64378, 59915, 56268, 53185, 50515, 48159, 46052,
     44145, 42405, 40804, 39322, 37942, 36652, 35439, 34296, 33215, 32189,
     31213, 30283, 29394, 28542, 27726, 26941, 26187, 25459, 24757, 24079,
     23424, 22789, 22173, 21576, 20996, 20433, 19885, 19352, 18832, 18326,
     17832, 17350, 16879, 16420, 15970, 15531, 15100, 14679, 14267, 13863,
     13467, 13079, 12698, 12324, 11957, 11596, 11242, 10895, 10553, 10217,
     9886, 9561, 9241, 8926, 8616, 8310, 8010, 7713, 7421, 7133, 6850,
     6570, 6294, 6022, 5754, 5489, 5227, 4969, 4714, 4463, 4214, 3969,
     3727, 3487, 3250, 3016, 2785, 2557, 2331, 2107, 1886, 1668, 1451,
     1238, 1026, 816, 609, 404, 201 >>
NegTwoLn(u) == NegTwoLnTable[u]

\* cos(2 * pi * v) in thousandths, for v = 0.01 .. 0.99
CosTwoPiTable ==
  <<998, 992, 982, 969, 951, 930, 905, 876, 844, 809, 771, 729, 685, 637,
     588, 536, 482, 426, 368, 309, 249, 187, 125, 63, 0, -63, -125, -187,
     -249, -309, -368, -426, -482, -536, -588, -637, -685, -729, -771,
     -809, -844, -876, -905, -930, -951, -969, -982, -992, -998, -1000,
     -998, -992, -982, -969, -951, -930, -905, -876, -844, -809, -771,
     -729, -685, -637, -588, -536, -482, -426, -368, -309, -249, -187,
     -125, -63, 0, 63, 125, 187, 249, 309, 368, 426, 482, 536, 588, 637,
     685, 729, 771, 809, 844, 876, 905, 930, 951, 969, 982, 992, 998 >>
CosTwoPi(v) == CosTwoPiTable[v]

\* while (u === 0) u = Math.random();  position of the first non-zero
\* sample at or after the stream position
RECURSIVE skipZero(_)
skipZero(st) == IF Rnd(st) # 0 THEN st ELSE skipZero(Adv(st, 1))

\* randn(): Box-Muller, thousandths
randn(st) ==
  LET su == skipZero(st)
      sv == skipZero(Adv(su, 1))
      r == ISqrt(NegTwoLn(Rnd(su)) * 100)      \* sqrt(-2 ln u), thousandths
  IN [val |-> MulDiv(r, CosTwoPi(Rnd(sv)), 1000), st |-> Adv(sv, 1)]

\* x ** 0.75 for x in hundredths, result in ten-thousandths
pow075(x) ==
  LET s == ISqrt(x * 1000000)                   \* sqrt(x), ten-thousandths
      q == ISqrt(s * 10000)                     \* x ** 0.25
  IN (s * q) \div 10000

RECURSIVE canopyLoop(_, _, _, _, _, _)
canopyLoop(acc, i, st, w, h, g) ==
  IF i >= canopyNodes THEN [nodes |-> acc, st |-> st]
  ELSE LET t == Rnd(st)
           y == MulDiv(h, 2000 + 65 * (100 - t), 1000)
           halfWidth == MulDiv(w * 22, 2500 + pow075(100 - t), 10000)
           g1 == randn(Adv(st, 1))
           x == w * 5 + MulDiv(g1.val, halfWidth, 10000)
       IN canopyLoop(Append(acc, makeNode(x, y, g)), i + 1, g1.st, w, h, g)

RECURSIVE trunkLoop(_, _, _, _, _, _)
trunkLoop(acc, i, st, w, h, g) ==
  IF i >= trunkNodes THEN acc
  ELSE LET den == Max(1, trunkNodes - 1)
           y == MulDiv(h, 88 * den - 55 * i, 10 * den)
           g1 == randn(st)
           x == w * 5 + MulDiv(g1.val, w * 12, 100000)
       IN trunkLoop(Append(acc, makeNode(x, y, g)), i + 1, g1.st, w, h, g)

\* buildTree(): canopy nodes, then trunk nodes, then state.nodes = nodes
buildTree(st, w, h, g) ==
  LET c == canopyLoop(<<>>, 0, st, w, h, g)
  IN trunkLoop(c.nodes, 0, c.st, w, h, g)

\* ------------------------------------------------------- the integrator
\* double arithmetic with NaN propagation
Fin(v) == v # NonFinite
Add(a, b) == IF Fin(a) /\ Fin(b) THEN a + b ELSE NonFinite
Sub(a, b) == IF Fin(a) /\ Fin(b) THEN a - b ELSE NonFinite
Scale(a, num, den) == IF Fin(a) THEN MulDiv(a, num, den) ELSE NonFinite
\* Math.sqrt(dx * dx + dy * dy)
dist(dx, dy) == IF Fin(dx) /\ Fin(dy) THEN Dist(dx, dy) ELSE NonFinite
\* Math.max(lo, Math.min(hi, v)) keeps NaN
clampV(v, lo, hi) == IF Fin(v) THEN clamp(v, lo, hi) ELSE NonFinite

\* a step that leaves the velocity undamped
dampNone(v, k) == v

\* n.vx *= CFG.damping
damp(v, k) == Scale(v, k, 100)

\* n.x += n.vx * (dt * 60)
integrate(x, v, dt) == Add(x, Scale(v, dt * 60, 100000))

\* d used as the divisor as it is
divisorRaw(d) == d

\* (d || 1)
divisor(d) == IF d = 0 THEN 1 ELSE d

\* (dx / div) * push : one component of the push, thousandths px per frame
dirPush(dx, push, div) ==
  IF div = 0 \/ ~Fin(dx) THEN NonFinite ELSE MulDiv(dx, push, div)

\* the branch conditions  d < CFG.hoverRadius,  d < CFG.repelRadius
inHover(d) == Fin(d) /\ d < hoverRadius
inRepel(d) == Fin(d) /\ d < repelRadius

\* variant A:  t = 1 - d / R;  f = t * t * repelStrength;  f * 16
\* as a numerator over forceDenA (pixels per frame)
forceDenA == hoverRadius * hoverRadius * 100
\* f = CFG.repelStrength, without the falloff t * t
forceAFlat(d) == hoverRadius * hoverRadius * repelStrengthA * pushA
forceA(d) == (hoverRadius - d) * (hoverRadius - d) * repelStrengthA * pushA

\* variant B:  f = (1 - d / R) * repelStrength;  f * 18
\* as a numerator over forceDenB (pixels per frame)
forceDenB == repelRadius * 100
forceB(d) == (repelRadius - d) * repelStrengthB * pushB

\* numerator / denominator pixels per frame, in thousandths
toVel(num, den) ==
  (num \div den) * 1000 + (((num % den) \div 100) * 1000 + den \div 200)
                             \div (den \div 100)

\* a step that also overwrites the anchor with the new position
movedWithAnchor(n, vx, vy, dt) ==
  [n EXCEPT !.vx = vx, !.vy = vy,
            !.x = integrate(n.x, vx, dt), !.y = integrate(n.y, vy, dt),
            !.ax = integrate(n.x, vx, dt), !.ay = integrate(n.y, vy, dt)]

\* the node after the assignments of one loop body: the final velocity is
\* stored and the position advanced; every other field is left alone
moved(n, vx, vy, dt) ==
  [n EXCEPT !.vx = vx, !.vy = vy,
            !.x = integrate(n.x, vx, dt), !.y = integrate(n.y, vy, dt)]

\* record of what a step applied to a node: distance to the pointer
\* (-1: not computed), force numerator, divisor used (0: no division),
\* and the two components added to the velocity by  n.vx += nx * f * K
NoPush == [d |-> -1, f |-> 0, div |-> 0, px |-> 0, py |-> 0]

\* if (state.mouse.active) { ... if (d < CFG.hoverRadius) { ... } }
hitA(n, m) == m.active /\ inHover(dist(Sub(n.x, m.x), Sub(n.y, m.y)))

\* body of the node loop of variant A's step(dt); r1, r2 are the two
\* Math.random() samples of the scatter
stepNodeA(n, m, dt, r1, r2) ==
  LET vx1 == Add(n.vx, Scale(Sub(n.ax, n.x), spring, 10))
      vy1 == Add(n.vy, Scale(Sub(n.ay, n.y), spring, 10))
      dx == Sub(n.x, m.x)
      dy == Sub(n.y, m.y)
      d == dist(dx, dy)
      hit == hitA(n, m)
      push == toVel(forceA(d), forceDenA)
      div == divisor(d)
      vx2 == IF hit
             THEN Add(Add(vx1, dirPush(dx, push, div)),
                      ((r1 - 50) * noiseStrength) \div 10)
             ELSE vx1
      vy2 == IF hit
             THEN Add(Add(vy1, dirPush(dy, push, div)),
                      ((r2 - 50) * noiseStrength) \div 10)
             ELSE vy1
      vx3 == clampV(damp(vx2, dampingA), -maxSpeed, maxSpeed)
      vy3 == clampV(damp(vy2, dampingA), -maxSpeed, maxSpeed)
  IN [node |-> moved(n, vx3, vy3, dt),
      ap |-> IF hit THEN [d |-> d, f |-> forceA(d), div |-> div,
                          px |-> dirPush(dx, push, div),
                          py |-> dirPush(dy, push, div)]
             ELSE IF m.active
                  THEN [d |-> d, f |-> 0, div |-> 0, px |-> 0, py |-> 0]
             ELSE NoPush]

\* body of the node loop of variant B's step(dt)
stepNodeB(n, m, dt) ==
  LET vx1 == Add(n.vx, Scale(Sub(n.ax, n.x), returnStrength, 10))
      vy1 == Add(n.vy, Scale(Sub(n.ay, n.y), returnStrength, 10))
      dx == Sub(n.x, m.x)
      dy == Sub(n.y, m.y)
      d == dist(dx, dy)
      hit == inRepel(d)
      push == toVel(forceB(d), forceDenB)
      div == divisor(d)
      vx2 == IF hit THEN Add(vx1, dirPush(dx, push, div)) ELSE vx1
      vy2 == IF hit THEN Add(vy1, dirPush(dy, push, div)) ELSE vy1
      vx3 == damp(vx2, dampingB)
      vy3 == damp(vy2, dampingB)
  IN [node |-> moved(n, vx3, vy3, dt),
      ap |-> IF hit THEN [d |-> d, f |-> forceB(d), div |-> div,
                          px |-> dirPush(dx, push, div),
                          py |-> dirPush(dy, push, div)]
             ELSE [d |-> d, f |-> 0, div |-> 0, px |-> 0, py |-> 0]]

\* all nodes of a forest, tree after tree
RECURSIVE flatten(_, _)
flatten(ts, i) == IF i > Len(ts) THEN <<>>
                  ELSE ts[i].nodes \o flatten(ts, i + 1)

\* step(dt) of variant A: the nodes in loop order (tree after tree); a node
\* that is pushed reads the next two samples of the random stream
stepA(ts, m, dt, st) ==
  LET flat == flatten(ts, 1)
      hits == [g \in 1..Len(flat) |-> hitA(flat[g], m)]
      pos == [g \in 1..Len(flat) |->
                2 * Cardinality({j \in 1..(g - 1) : hits[j]})]
      res == [g \in 1..Len(flat) |->
                stepNodeA(flat[g], m, dt, Rnd(Adv(st, pos[g])),
                          Rnd(Adv(st, pos[g] + 1)))]
      first == [t \in 1..Len(ts) |-> Len(flatten(SubSeq(ts, 1, t - 1), 1))]
  IN [trees |-> [t \in 1..Len(ts) |->
                   [ts[t] EXCEPT !.nodes =
                      [i \in 1..Len(ts[t].nodes) |-> res[first[t] + i].node]]],
      ap |-> [g \in 1..Len(flat) |-> res[g].ap]]

\* step(dt) of variant B
stepB(ns, m, dt) ==
  LET res == [i \in 1..Len(ns) |-> stepNodeB(ns[i], m, dt)]
  IN [nodes |-> [i \in 1..Len(ns) |-> res[i].node],
      ap |-> [i \in 1..Len(ns) |-> res[i].ap]]

\* ------------------------------------------------- variant B: rendering
max2 == linkDist * linkDist

\* alpha = CFG.linkAlpha * (1 - d2 / max2), numerator over alphaDen
alphaDen == 100 * max2
linkAlphaOf(d2) == linkAlpha * (max2 - d2)

\* alpha.toFixed(3): thousandths, rounded
toFixed3(d2) == MulDiv(max2 - d2, linkAlpha * 10, max2)

\* the test  d2 < max2
linked(d2) == Fin(d2) /\ d2 < max2

sqDist(a, b) ==
  IF Fin(a.x) /\ Fin(a.y) /\ Fin(b.x) /\ Fin(b.y)
  THEN (a.x - b.x) * (a.x - b.x) + (a.y - b.y) * (a.y - b.y)
  ELSE NonFinite

\* an inner loop that starts at j = i
innerStartSame(i) == i

\* first index of the inner loop:  for (let j = i + 1; ...)
innerStart(i) == i + 1

\* the pairs the inner loop examines for one i, in order
rowPairs(n, i) == [k \in 1..Max(0, n - innerStart(i) + 1) |->
                     <<i, innerStart(i) + k - 1>>]

\* the pairs the two nested loops of draw() examine, in order
RECURSIVE allPairs(_, _)
allPairs(n, i) == IF i > n THEN <<>>
                  ELSE rowPairs(n, i) \o allPairs(n, i + 1)

\* the segment stroked for a pair
segment(ns, p) ==
  [i |-> p[1], j |-> p[2], d2 |-> sqDist(ns[p[1]], ns[p[2]]),
   alpha |-> linkAlphaOf(sqDist(ns[p[1]], ns[p[2]])),
   style |-> toFixed3(sqDist(ns[p[1]], ns[p[2]])),
   x1 |-> ns[p[1]].x, y1 |-> ns[p[1]].y,
   x2 |-> ns[p[2]].x, y2 |-> ns[p[2]].y]

\* the link pass of draw(): pairs examined and segments stroked
linkLoop(ns) ==
  LET pairs == allPairs(Len(ns), 1)
      hit == SelectSeq(pairs, LAMBDA p : linked(sqDist(ns[p[1]], ns[p[2]])))
  IN [pairs |-> pairs, segs |-> [k \in 1..Len(hit) |-> segment(ns, hit[k])]]

circlesOf(ns) == [i \in 1..Len(ns) |-> <<ns[i].x, ns[i].y>>]

\* draw() of variant B
drawB(ns) ==
  LET l == linkLoop(ns)
  IN [pairs |-> l.pairs, segs |-> l.segs, circles |-> circlesOf(ns)]

\* draw() of variant A
drawA(ts) == [pairs |-> <<>>, segs |-> <<>>, circles |-> circlesOf(flatten(ts, 1))]

\* ------------------------------------------------------------ page state
VARIABLES
  variant,    \* "A" (bannerTreeCanvas script) or "B" (tree-canvas.js)
  canvas,     \* whether document.getElementById found the element
  loaded,     \* whether the script body has run
  thrown,     \* whether the script raised an error
  listeners,  \* event types with a registered listener
  pending,    \* requested animation-frame callbacks not yet run
  W, H,       \* surface size, pixels
  dpr,        \* pixel ratio, tenths
  cw, ch,     \* canvas.width, canvas.height
  trees,      \* state.trees (variant A)
  nodes,      \* state.nodes (variant B)
  mouse,      \* state.mouse
  lastT,      \* state.lastT, ms
  gen,        \* number of regenerations so far
  applied,    \* per node, what the last step() applied
  drawn,      \* what the last draw() rendered
  lastDt,     \* dt the last loop() passed to step()
  lastOp,     \* the handler that ran last
  events      \* handler runs since the script loaded

pageVars == <<variant, canvas, loaded, thrown, listeners, pending, W, H, dpr,
              cw, ch, trees, nodes, mouse, lastT, gen, applied, drawn,
              lastDt, lastOp, events>>

\* chooseTreeCenter, one try a step
VARIABLES
  pz,        \* safe zone in force
  pw, ph,    \* W, H
  ppc,       \* "idle", "loop" (inside the for loop) or "done" (returned)
  ptries,    \* the loop variable
  pcand,     \* candidates drawn and tested by the loop
  pdraws,    \* Math.random() calls of the current call
  pres,      \* the returned point and the samples it was made from
  ppath,     \* "loop" or "fallback": which return statement was taken
  pcalls,    \* calls so far
  ptest      \* the locals inSafeBox and edgeBias of the last iteration

placeVars == <<pz, pw, ph, ppc, ptries, pcand, pdraws, pres, ppath, pcalls,
               ptest>>

\* step() on one node, tick after tick
VARIABLES
  lv,        \* variant
  lm,        \* pointer state
  ln,        \* the node
  lh,        \* the fixed dt of the run, ms
  lticks,    \* steps so far
  lprev,     \* squared distance to the anchor before the last step
  lfrom,     \* the node before the last step
  lsplit     \* last comparison of one step of 2h against two steps of h

labVars == <<lv, lm, ln, lh, lticks, lprev, lfrom, lsplit>>

Sentinel == -99990      \* -9999 px
mouseOff == [x |-> Sentinel, y |-> Sentinel, active |-> FALSE]
NoDraw == [pairs |-> <<>>, segs |-> <<>>, circles |-> <<>>]

\* environment inputs
\* a layout (bounding rectangle in tenths of a pixel, devicePixelRatio in
\* tenths, 0 for none) together with the samples Math.random() will return
Layouts == { [w |-> 0, h |-> 0, ratio |-> 30, seq |-> <<50>>],
             [w |-> 3205, h |-> 2000, ratio |-> 0, seq |-> <<30, 50>>],
             [w |-> 6400, h |-> 1209, ratio |-> 15, seq |-> <<0, 25, 75>>] }
NoiseStreams == { <<50>>, <<0, 99>> }
Deltas == { 16, 50 }
Offsets == { <<0, 0>>, <<0, -800>> }
LoadTime == 1000
MaxDt == 33             \* 0.033 s

\* Math.min(2, window.devicePixelRatio || 1)
pixelRatio(ratio) == Min(20, IF ratio = 0 THEN 10 ELSE ratio)
\* Math.max(1, Math.floor(r.width))
surfaceDim(len) == Max(1, len \div 10)

\* the nodes of the page, whichever the variant
pageNodes == IF variant = "A" THEN flatten(trees, 1) ELSE nodes

\* a script without the guard
noCanvasUnchecked(c) == FALSE

\* if (!canvas) return;
noCanvas(c) == ~c

\* a leave handler that clears the flag and keeps the coordinates
onLeaveKeepsCoordinates(m) == [m EXCEPT !.active = FALSE]

\* onLeave(): active = false, x = y = -9999
onLeave(m) == [m EXCEPT !.active = FALSE, !.x = Sentinel, !.y = Sentinel]

\* onMove(e): x, y from the event, active = true
onMove(m, x, y) == [m EXCEPT !.x = x, !.y = y, !.active = TRUE]

\* a callback that does not request the next one
rescheduleNone(p) == p

\* requestAnimationFrame(loop): one more callback pending
reschedule(p) == p + 1

\* resize(): measure, set the backing store, regenerate
resizeBody(l) ==
  LET w == surfaceDim(l.w)
      h == surfaceDim(l.h)
      r == pixelRatio(l.ratio)
  IN /\ W' = w /\ H' = h /\ dpr' = r
     /\ cw' = (w * r) \div 10 /\ ch' = (h * r) \div 10
     /\ gen' = gen + 1
     /\ IF variant = "A"
        THEN trees' = initForest(Stream(l.seq), w, h, gen + 1) /\ nodes' = nodes
        ELSE nodes' = buildTree(Stream(l.seq), w, h, gen + 1) /\ trees' = trees

PageInit ==
  /\ variant \in {"A", "B"} /\ canvas \in BOOLEAN
  /\ loaded = FALSE /\ thrown = FALSE /\ listeners = {} /\ pending = 0
  /\ W = 0 /\ H = 0 /\ dpr = 10 /\ cw = 0 /\ ch = 0
  /\ trees = <<>> /\ nodes = <<>> /\ mouse = mouseOff /\ lastT = 0
  /\ gen = 0 /\ applied = <<>> /\ drawn = NoDraw /\ lastDt = 0
  /\ lastOp = "none" /\ events = 0

\* the script body
Load ==
  /\ UNCHANGED <<placeVars, labVars>>
  /\ ~loaded
  /\ loaded' = TRUE /\ lastOp' = "load"
  /\ UNCHANGED <<variant, canvas, applied, drawn, lastDt, events, mouse>>
  /\ IF noCanvas(canvas)
     THEN UNCHANGED <<thrown, listeners, pending, W, H, dpr, cw, ch, trees,
                      nodes, lastT, gen>>
     ELSE IF ~canvas
     THEN \* canvas.getContext on null raises a TypeError
          /\ thrown' = TRUE
          /\ UNCHANGED <<listeners, pending, W, H, dpr, cw, ch, trees,
                         nodes, lastT, gen>>
     ELSE /\ lastT' = LoadTime
          /\ listeners' = {"resize", "mousemove", "mouseleave"}
          /\ \E l \in Layouts : resizeBody(l)
          /\ pending' = reschedule(pending)
          /\ UNCHANGED thrown

\* window "resize" event
Resize ==
  /\ UNCHANGED <<placeVars, labVars>>
  /\ "resize" \in listeners /\ events < MaxEvents
  /\ \E l \in Layouts : resizeBody(l)
  /\ events' = events + 1 /\ lastOp' = "resize"
  /\ UNCHANGED <<variant, canvas, loaded, thrown, listeners, pending, mouse,
                 lastT, applied, drawn, lastDt>>

\* "mousemove" event: onMove(e), with e.clientX - r.left and
\* e.clientY - r.top chosen on or near a node
OnMove ==
  /\ UNCHANGED <<placeVars, labVars>>
  /\ "mousemove" \in listeners /\ events < MaxEvents
  /\ \E i \in {1}, o \in Offsets :
       /\ i \in 1..Len(pageNodes) /\ Fin(pageNodes[i].x) /\ Fin(pageNodes[i].y)
       /\ mouse' = onMove(mouse, pageNodes[i].x + o[1], pageNodes[i].y + o[2])
  /\ events' = events + 1 /\ lastOp' = "move"
  /\ UNCHANGED <<variant, canvas, loaded, thrown, listeners, pending, W, H,
                 dpr, cw, ch, trees, nodes, lastT, gen, applied, drawn,
                 lastDt>>

\* "mouseleave" event: onLeave()
OnLeave ==
  /\ UNCHANGED <<placeVars, labVars>>
  /\ "mouseleave" \in listeners /\ events < MaxEvents
  /\ mouse' = onLeave(mouse)
  /\ events' = events + 1 /\ lastOp' = "leave"
  /\ UNCHANGED <<variant, canvas, loaded, thrown, listeners, pending, W, H,
                 dpr, cw, ch, trees, nodes, lastT, gen, applied, drawn,
                 lastDt>>

\* the elapsed time passed on as it is
frameDtUnclamped(t, last) == t - last

\* Math.min(0.033, (t - state.lastT) / 1000)
frameDt(t, last) == Min(MaxDt, t - last)

\* the scatter reads Math.random() only in variant A and only for a node
\* that is pushed; otherwise one stream stands for all
noiseChoices ==
  IF variant = "A" /\ \E g \in 1..Len(pageNodes) : hitA(pageNodes[g], mouse)
  THEN NoiseStreams ELSE { <<50>> }

\* an animation-frame callback: loop(t)
Frame ==
  /\ UNCHANGED <<placeVars, labVars>>
  /\ pending > 0 /\ events < MaxEvents
  /\ \E delta \in Deltas, s \in noiseChoices :
       LET t == lastT + delta
           dt == frameDt(t, lastT)
       IN /\ lastT' = t /\ lastDt' = dt
          /\ IF variant = "A"
             THEN LET r == stepA(trees, mouse, dt, Stream(s))
                  IN /\ trees' = r.trees /\ applied' = r.ap
                     /\ drawn' = drawA(r.trees) /\ nodes' = nodes
             ELSE LET r == stepB(nodes, mouse, dt)
                  IN /\ nodes' = r.nodes /\ applied' = r.ap
                     /\ drawn' = drawB(r.nodes) /\ trees' = trees
  /\ pending' = reschedule(pending - 1)
  /\ events' = events + 1 /\ lastOp' = "frame"
  /\ UNCHANGED <<variant, canvas, loaded, thrown, listeners, W, H, dpr, cw,
                 ch, mouse, gen>>

\* -------------------------------------- chooseTreeCenter, one try a step

WholeZone == [xmin |-> -1, xmax |-> 100, ymin |-> -1, ymax |-> 100]
UpperZone == [xmin |-> -1, xmax |-> 100, ymin |-> -1, ymax |-> 50]
SafeZones == {CFGZone, WholeZone, UpperZone}
Surfaces == { <<1, 1>>, <<320, 200>> }
PlaceSamples == {0, 20, 22, 30, 34, 50, 66, 78, 85, 99}
NoPoint == [x |-> 0, y |-> 0, nx |-> 0, ny |-> 0]
NoTest == [inSafeBox |-> FALSE, edgeBias |-> FALSE]

PlaceIdle ==
  /\ pz = CFGZone /\ pw = 0 /\ ph = 0 /\ ppc = "idle" /\ ptries = 0
  /\ pcand = 0 /\ pdraws = 0 /\ pres = NoPoint /\ ppath = "none" /\ pcalls = 0
  /\ ptest = NoTest

PlaceInit ==
  /\ pz \in SafeZones /\ \E sf \in Surfaces : pw = sf[1] /\ ph = sf[2]
  /\ ppc = "loop" /\ ptries = 0 /\ pcand = 0 /\ pdraws = 0
  /\ pres = NoPoint /\ ppath = "none" /\ pcalls = 1
  /\ ptest = NoTest

pointOf(nx, ny) ==
  [x |-> scaledPoint(nx, ny, pw, ph).x, y |-> scaledPoint(nx, ny, pw, ph).y,
   nx |-> nx, ny |-> ny]

\* one iteration of the for loop
PlaceTry ==
  /\ UNCHANGED <<pageVars, labVars>>
  /\ ppc = "loop" /\ loopContinues(ptries)
  /\ \E nx \in PlaceSamples, ny \in PlaceSamples :
       /\ ptest' = [inSafeBox |-> inSafeBox(nx, ny, pz),
                    edgeBias |-> edgeBias(nx, ny)]
       /\ IF tryAccepts(nx, ny, ptries, pz)
          THEN /\ pres' = pointOf(nx, ny) /\ ppc' = "done" /\ ppath' = "loop"
               /\ ptries' = ptries
          ELSE /\ ptries' = ptries + 1 /\ UNCHANGED <<pres, ppc, ppath>>
  /\ pcand' = pcand + 1 /\ pdraws' = pdraws + 2
  /\ UNCHANGED <<pz, pw, ph, pcalls>>

\* the loop ran out: return [Math.random() * W, Math.random() * H]
PlaceFallback ==
  /\ UNCHANGED <<pageVars, labVars>>
  /\ ppc = "loop" /\ ~loopContinues(ptries)
  /\ \E nx \in PlaceSamples, ny \in PlaceSamples : pres' = pointOf(nx, ny)
  /\ ppc' = "done" /\ ppath' = "fallback" /\ pdraws' = pdraws + 2
  /\ UNCHANGED <<pz, pw, ph, ptries, pcand, pcalls, ptest>>

\* initForest calls chooseTreeCenter again for the next tree
PlaceCall ==
  /\ UNCHANGED <<pageVars, labVars>>
  /\ ppc = "done" /\ pcalls < MaxCalls
  /\ ppc' = "loop" /\ ptries' = 0 /\ pcand' = 0 /\ pdraws' = 0
  /\ pres' = NoPoint /\ ppath' = "none" /\ pcalls' = pcalls + 1
  /\ ptest' = NoTest
  /\ UNCHANGED <<pz, pw, ph>>

\* --------------------------------- step() on one node, tick after tick

LabAnchor == <<2000, 1500>>
LabDisps == { <<500, 0>>, <<-300, 400>>, <<0, -2000>> }
LabDts == { 8, 16, 33 }
HalfDts == { 4, 8, 16 }
StaleMice == { [x |-> 2000, y |-> 1500, active |-> FALSE],
               [x |-> 2600, y |-> 1500, active |-> FALSE] }
NoSplit == [h |-> 0, one |-> makeNode(0, 0, 0), two |-> makeNode(0, 0, 0)]

labNode(disp) ==
  [makeNode(LabAnchor[1], LabAnchor[2], 1)
     EXCEPT !.x = LabAnchor[1] + disp[1], !.y = LabAnchor[2] + disp[2]]

\* squared distance of a node to its anchor
sqToAnchor(n) == (n.x - n.ax) * (n.x - n.ax) + (n.y - n.ay) * (n.y - n.ay)

\* step(dt) on a node set that holds one node
stepOne(v, n, m, dt) ==
  IF v = "A"
  THEN stepA(<< [cx |-> 0, cy |-> 0, scale |-> 0, nodes |-> <<n>>] >>,
             m, dt, Stream(<<50>>)).trees[1].nodes[1]
  ELSE stepB(<<n>>, m, dt).nodes[1]

LabIdle ==
  /\ lv = "A" /\ lm = mouseOff /\ ln = makeNode(0, 0, 0) /\ lh = 0
  /\ lticks = 0 /\ lprev = 0 /\ lfrom = makeNode(0, 0, 0) /\ lsplit = NoSplit

LabStart(mice) ==
  /\ lv \in {"A", "B"} /\ lm \in mice /\ lh \in LabDts
  /\ \E disp \in LabDisps : ln = labNode(disp) /\ lfrom = labNode(disp)
  /\ lticks = 0 /\ lprev = sqToAnchor(ln) /\ lsplit = NoSplit

\* the pointer as the page keeps it while inactive
LabInit == LabStart({mouseOff})
\* any stored coordinates with active = false
StaleInit == LabStart(StaleMice \cup {mouseOff})

\* one step(dt) with the run's dt
LabTick ==
  /\ UNCHANGED <<pageVars, placeVars>>
  /\ lticks < MaxTicks
  /\ ln' = stepOne(lv, ln, lm, lh)
  /\ lfrom' = ln /\ lprev' = sqToAnchor(ln) /\ lticks' = lticks + 1
  /\ lsplit' = NoSplit
  /\ UNCHANGED <<lv, lm, lh>>

\* from the current node: one step of 2h, and two steps of h
LabSplit ==
  /\ UNCHANGED <<pageVars, placeVars>>
  /\ \E h \in HalfDts :
       lsplit' = [h |-> h, one |-> stepOne(lv, ln, lm, 2 * h),
                  two |-> stepOne(lv, stepOne(lv, ln, lm, h), lm, h)]
  /\ UNCHANGED <<lv, lm, ln, lh, lticks, lprev, lfrom>>

\* --------------------------------------------------------- specifications
vars == <<pageVars, placeVars, labVars>>

PageIdle ==
  /\ variant = "A" /\ canvas = FALSE
  /\ loaded = TRUE /\ thrown = FALSE /\ listeners = {} /\ pending = 0
  /\ W = 0 /\ H = 0 /\ dpr = 10 /\ cw = 0 /\ ch = 0
  /\ trees = <<>> /\ nodes = <<>> /\ mouse = mouseOff /\ lastT = 0
  /\ gen = 0 /\ applied = <<>> /\ drawn = NoDraw /\ lastDt = 0
  /\ lastOp = "none" /\ events = 0

Init == PageInit /\ PlaceIdle /\ LabIdle
Next == Load \/ Resize \/ OnMove \/ OnLeave \/ Frame
\* the page: load, then resize, pointer and frame events in any order
Spec == Init /\ [][Next]_vars

InitPlace == PageIdle /\ PlaceInit /\ LabIdle
NextPlace == PlaceTry \/ PlaceFallback \/ PlaceCall
\* chooseTreeCenter over every sequence of samples
SpecPlace == InitPlace /\ [][NextPlace]_vars
\* a call that has started runs on until it returns
FairPlace == SpecPlace /\ WF_vars(PlaceTry) /\ WF_vars(PlaceFallback)

InitLab == PageIdle /\ PlaceIdle /\ LabInit
NextLab == LabTick \/ LabSplit
\* step() iterated on one node with the pointer inactive
SpecLab == InitLab /\ [][NextLab]_vars

InitStale == PageIdle /\ PlaceIdle /\ StaleInit
\* step() as a function of the stored pointer state
SpecStale == InitStale /\ [][NextLab]_vars

\* ------------------------------------------------------------- claims
\* the point's fractional coordinates lie strictly inside the zone
\* (x / W strictly between xmin and xmax, y / H between ymin and ymax)
strictlyInside(pt, w, h, z) ==
  /\ pt.x > z.xmin * w /\ pt.x < z.xmax * w
  /\ pt.y > z.ymin * h /\ pt.y < z.ymax * h

\* C1 as stated: with the configured safe zone, every centre that
\* chooseTreeCenter returns lies outside the safe zone
C1_EveryCenterOutside ==
  (ppc = "done" /\ pz = CFGZone) => ~strictlyInside(pres, pw, ph, pz)

\* C1 amended: every centre returned by one of the 40 tries of the loop lies
\* outside the safe zone (the fallback return is unconstrained)
C1_LoopCenterOutside ==
  (ppc = "done" /\ ppath = "loop") => ~strictlyInside(pres, pw, ph, pz)

\* a point on the zone's left edge, accepted by the relaxed test
C1_Witness ==
  /\ ppc = "done" /\ ppath = "loop" /\ pz = CFGZone /\ pw = 320
  /\ pres.nx = safeCenterXMin /\ pres.ny = 50 /\ ptries > RelaxAfter

\* the returned point lies on the surface
onSurface(pt, w, h) ==
  pt.x >= 0 /\ pt.x <= w * 100 /\ pt.y >= 0 /\ pt.y <= h * 100

\* C2: under every safe zone, a call of chooseTreeCenter tests at most 40
\* candidates, returns, and returns a point with 0 <= x <= W, 0 <= y <= H
C2_Terminates ==
  /\ [](pcand <= MaxTries /\ (ppc = "done" => onSurface(pres, pw, ph)))
  /\ (ppc = "loop" ~> ppc = "done")

\* the fallback return under a safe zone that covers the whole surface
C2_Witness ==
  /\ ppc = "done" /\ ppath = "fallback" /\ pz = WholeZone
  /\ pcand = MaxTries /\ pdraws = 2 * MaxTries + 2

\* velocity after a step that applies spring, damping and (variant A) the
\* speed clamp only
springOnly(v, n) ==
  IF v = "A"
  THEN [vx |-> clamp(MulDiv(n.vx + MulDiv(n.ax - n.x, spring, 10),
                            dampingA, 100), -maxSpeed, maxSpeed),
        vy |-> clamp(MulDiv(n.vy + MulDiv(n.ay - n.y, spring, 10),
                            dampingA, 100), -maxSpeed, maxSpeed)]
  ELSE [vx |-> MulDiv(n.vx + MulDiv(n.ax - n.x, returnStrength, 10),
                      dampingB, 100),
        vy |-> MulDiv(n.vy + MulDiv(n.ay - n.y, returnStrength, 10),
                      dampingB, 100)]

radius == IF variant = "A" THEN hoverRadius ELSE repelRadius

\* C4: in a step with the pointer active the force applied to a node is zero
\* at distance >= the repel radius, positive below it, and strictly larger
\* for a strictly smaller distance
C4_RepulsionMonotone ==
  (lastOp = "frame" /\ mouse.active) =>
     \A i \in DOMAIN applied :
        /\ applied[i].d >= radius => applied[i].f = 0
        /\ applied[i].d < radius => applied[i].f > 0
        /\ \A j \in DOMAIN applied :
             (applied[j].d < applied[i].d /\ applied[i].d < radius)
                => applied[j].f > applied[i].f

\* one step pushed two nodes at different distances and left a third alone
C4_Witness ==
  /\ lastOp = "frame" /\ mouse.active
  /\ \E i, j, k \in DOMAIN applied :
       /\ applied[i].d < applied[j].d /\ applied[j].d < radius
       /\ applied[i].f > applied[j].f /\ applied[j].f > 0
       /\ applied[k].d >= radius /\ applied[k].f = 0

\* the node set a regeneration must produce
completeSet ==
  IF variant = "A"
  THEN /\ Len(trees) = treeCount
       /\ \A t \in DOMAIN trees : Len(trees[t].nodes) = 10
  ELSE Len(nodes) = canopyNodes + trunkNodes

atRest(n) == n.x = n.ax /\ n.y = n.ay /\ n.vx = 0 /\ n.vy = 0

regenerated ==
  \/ lastOp' = "resize" /\ events' # events
  \/ lastOp' = "load" /\ loaded' # loaded /\ canvas

\* C5: startup and every resize replace the node set by a new, complete one
\* whose nodes sit on their anchors with zero velocity, and the node set
\* never mixes nodes of two regenerations
C5_ResizeRegenerates ==
  /\ [](\A i \in DOMAIN pageNodes : pageNodes[i].gen = gen)
  /\ []((canvas /\ lastOp \in {"load", "resize"})
          => (completeSet /\ \A i \in DOMAIN pageNodes : atRest(pageNodes[i])))
  /\ [][regenerated => gen' = gen + 1]_vars

\* a resize that follows a step in which the pointer pushed a node
C5_Witness ==
  /\ lastOp = "resize" /\ gen >= 2 /\ completeSet
  /\ \E i \in DOMAIN applied : applied[i].f > 0
  /\ \A i \in DOMAIN pageNodes : atRest(pageNodes[i]) /\ pageNodes[i].gen = gen

\* C6: a step with the pointer exactly on a node divides by 1, and no node's
\* position or velocity is ever NaN or Infinity
C6_NoDivisionByZero ==
  /\ \A i \in DOMAIN pageNodes :
       /\ Fin(pageNodes[i].x) /\ Fin(pageNodes[i].y)
       /\ Fin(pageNodes[i].vx) /\ Fin(pageNodes[i].vy)
  /\ \A i \in DOMAIN applied :
       (applied[i].d = 0 /\ mouse.active) => applied[i].div = 1

\* a step ran with the pointer on a node
C6_Witness ==
  /\ lastOp = "frame" /\ mouse.active
  /\ \E i \in DOMAIN applied : applied[i].d = 0 /\ applied[i].div = 1
                                /\ applied[i].f > 0

\* squared distance of two drawn nodes
drawnD2(i, j) ==
  (drawn.circles[i][1] - drawn.circles[j][1])
     * (drawn.circles[i][1] - drawn.circles[j][1])
  + (drawn.circles[i][2] - drawn.circles[j][2])
     * (drawn.circles[i][2] - drawn.circles[j][2])

\* how many times the pair {i, j} was examined, and stroked
examined(i, j) ==
  Cardinality({k \in DOMAIN drawn.pairs :
                 drawn.pairs[k] = <<i, j>> \/ drawn.pairs[k] = <<j, i>>})
stroked(i, j) ==
  Cardinality({k \in DOMAIN drawn.segs :
                 \/ drawn.segs[k].i = i /\ drawn.segs[k].j = j
                 \/ drawn.segs[k].i = j /\ drawn.segs[k].j = i})

\* C7: a draw of variant B examines every unordered pair of distinct nodes
\* exactly once, strokes a pair iff its squared distance is below linkDist^2,
\* with alpha = linkAlpha * (1 - d2 / linkDist^2), which lies in
\* (0, linkAlpha] and equals linkAlpha for a coincident pair
C7_LinkRendering ==
  variant = "B" =>
    LET n == Len(drawn.circles)
    IN /\ 2 * Len(drawn.pairs) = n * (n - 1)
       /\ \A i, j \in 1..n :
            i < j => /\ examined(i, j) = 1
                     /\ stroked(i, j) = IF drawnD2(i, j) < max2 THEN 1 ELSE 0
       /\ \A k \in DOMAIN drawn.segs :
            LET sg == drawn.segs[k]
            IN /\ sg.i \in 1..n /\ sg.j \in 1..n /\ sg.i # sg.j
               /\ sg.alpha = linkAlpha * (max2 - drawnD2(sg.i, sg.j))
               /\ sg.alpha > 0 /\ sg.alpha <= linkAlpha * max2
               /\ drawnD2(sg.i, sg.j) = 0 => sg.alpha = linkAlpha * max2

\* a draw with a coincident pair and a pair too far apart to be linked
C7_Witness ==
  /\ variant = "B" /\ lastOp = "frame"
  /\ \E k \in DOMAIN drawn.segs :
       drawn.segs[k].d2 = 0 /\ drawn.segs[k].alpha = linkAlpha * max2
  /\ \E i, j \in DOMAIN drawn.circles :
       i < j /\ drawnD2(i, j) >= max2 /\ stroked(i, j) = 0

\* C8: without the canvas element the script registers no listener,
\* schedules no frame, creates no node and raises no error, and the state
\* stays what it was
C8_MissingSurfaceNoOp ==
  (loaded /\ ~canvas) =>
     /\ listeners = {} /\ pending = 0 /\ ~thrown
     /\ trees = <<>> /\ nodes = <<>> /\ gen = 0
     /\ mouse = mouseOff /\ applied = <<>> /\ drawn = NoDraw
     /\ W = 0 /\ H = 0 /\ cw = 0 /\ ch = 0 /\ lastT = 0 /\ events = 0

\* the script has run on a page without the element
C8_Witness == loaded /\ ~canvas /\ lastOp = "load" /\ listeners = {}

SplitTol == 5           \* tolerance of C9, tenths of a pixel

\* C9 as stated: from the same position and velocity, one step of dt = 2h
\* and two steps of dt = h end at the same position, within tolerance
C9_FrameRateIndependent ==
  lsplit.h # 0 =>
     /\ Abs(lsplit.one.x - lsplit.two.x) <= SplitTol
     /\ Abs(lsplit.one.y - lsplit.two.y) <= SplitTol

Several == 4            \* "the first several ticks" of C10
Eps == 10               \* epsilon of C10: one pixel
SettleTicks == 150      \* ticks after which the node is within Eps

\* C10: pointer inactive, node released at rest away from its anchor, fixed
\* dt: the distance to the anchor strictly decreases on each of the first
\* Several ticks, and from SettleTicks on the node is within Eps of the anchor
C10_SpringConverges ==
  /\ (lticks >= 1 /\ lticks <= Several) => sqToAnchor(ln) < lprev
  /\ lticks >= SettleTicks => sqToAnchor(ln) <= Eps * Eps

\* variant A at the slowest tick rate has just come within Eps of its anchor
C10_Witness ==
  /\ lticks >= SettleTicks /\ lv = "A" /\ lh = 8 /\ lm = mouseOff
  /\ ln.ax = LabAnchor[1] /\ ln.ay = LabAnchor[2]
  /\ sqToAnchor(ln) <= Eps * Eps /\ sqToAnchor(lfrom) <= Eps * Eps

\* tries that had failed when the last candidate was tested, and whether
\* that candidate was returned
failedBefore == IF ppc = "done" THEN ptries ELSE ptries - 1
accepted == ppc = "done"

\* C11 as stated: a candidate outside the safe zone without edge bias is
\* rejected while fewer than 15 tries have failed and accepted once 15 tries
\* have failed; one with edge bias is accepted on any try
C11_RelaxAfterFifteen ==
  (pcand > 0 /\ ppath # "fallback" /\ ~ptest.inSafeBox) =>
     /\ ptest.edgeBias => accepted
     /\ (~ptest.edgeBias /\ failedBefore < RelaxAfter) => ~accepted
     /\ (~ptest.edgeBias /\ failedBefore >= RelaxAfter) => accepted

PushTol == 20           \* tolerance of C12, thousandths of a pixel per frame

\* t^2 * repelStrength * K_push at distance d, thousandths of a pixel per
\* frame, with the constants of the running variant
quadraticPush(d) ==
  IF variant = "A"
  THEN toVel((hoverRadius - d) * (hoverRadius - d) * repelStrengthA * pushA,
             hoverRadius * hoverRadius * 100)
  ELSE toVel((repelRadius - d) * (repelRadius - d) * repelStrengthB * pushB,
             repelRadius * repelRadius * 100)

\* the increment of magnitude m at distance d agrees with the quadratic
\* law, up to the rounding of d and of the components
nearQuadratic(m, d) ==
  Abs(m - quadraticPush(d)) <= PushTol + quadraticPush(d) \div Max(d, 1)

\* C12 as stated: with the pointer active at distance d < R, the velocity
\* increment of a step has magnitude t^2 * repelStrength * K_push
C12_QuadraticFalloff ==
  (lastOp = "frame" /\ mouse.active) =>
     \A i \in DOMAIN applied :
        (applied[i].d >= 0 /\ applied[i].d < radius)
           => nearQuadratic(Hypot(Abs(applied[i].px), Abs(applied[i].py)),
                            applied[i].d)

\* C13 as stated: in every reachable state every node's vx and vy lie in
\* [-maxSpeed, maxSpeed]
C13_SpeedClamped ==
  \A i \in DOMAIN pageNodes :
     /\ Abs(pageNodes[i].vx) <= maxSpeed
     /\ Abs(pageNodes[i].vy) <= maxSpeed

\* a step of the behaviour that runs a frame callback
frameRan == lastOp' = "frame" /\ events' = events + 1

\* C14: the dt of a frame is min(0.033, (t - lastT) / 1000) for the
\* timestamp t of the frame and the previous timestamp lastT (the load time
\* for the first frame), lastT becomes t, and dt lies in [0, 0.033]
C14_DtClamp ==
  /\ [](lastDt >= 0 /\ lastDt <= MaxDt)
  /\ [][frameRan =>
          /\ lastT' >= lastT
          /\ lastDt' = IF lastT' - lastT < MaxDt THEN lastT' - lastT
                       ELSE MaxDt]_vars

\* a frame 50 ms after a frame that was not the first: its dt is capped
C14_Witness ==
  /\ lastOp = "frame" /\ lastDt = MaxDt /\ lastT >= LoadTime + 50 + 16

\* C15: a frame callback runs one step, then one render of the positions
\* that step produced, then requests one callback; no handler requests one,
\* so once the script has started exactly one callback is pending
C15_FrameSequencing ==
  /\ [](loaded /\ canvas => pending = 1)
  /\ [](lastOp = "frame" =>
          /\ drawn.circles = circlesOf(pageNodes)
          /\ Len(applied) = Len(pageNodes))
  /\ [][pending' = pending \/ (~loaded /\ loaded' /\ pending' = 1)]_vars

\* a frame that ran after a resize and a pointer move
C15_Witness ==
  /\ lastOp = "frame" /\ pending = 1 /\ gen >= 2 /\ mouse.active
  /\ drawn.circles = circlesOf(pageNodes) /\ drawn.circles # <<>>

\* anchors and identities of the nodes, in order
anchorsOf(ns) == [i \in DOMAIN ns |-> <<ns[i].ax, ns[i].ay, ns[i].gen>>]

pointerHandled == lastOp' \in {"move", "leave"} /\ events' = events + 1

\* C16: a frame changes positions and velocities only (anchors, number and
\* order of nodes, pointer and surface dimensions stay); onMove and onLeave
\* change the pointer state only; anchors change only when resize regenerates
C16_FrameConditions ==
  /\ [][frameRan =>
          /\ anchorsOf(pageNodes)' = anchorsOf(pageNodes)
          /\ UNCHANGED <<mouse, W, H, dpr, cw, ch, gen, listeners>>]_vars
  /\ [][pointerHandled =>
          UNCHANGED <<trees, nodes, W, H, dpr, cw, ch, gen, lastT, applied,
                      drawn, pending, listeners>>]_vars
  /\ [][anchorsOf(pageNodes)' # anchorsOf(pageNodes) =>
          gen' = gen + 1 /\ lastOp' \in {"load", "resize"}]_vars

\* a frame has pushed a node off its anchor
C16_Witness ==
  /\ lastOp = "frame" /\ mouse.active
  /\ \E i \in DOMAIN pageNodes :
       /\ pageNodes[i].x # pageNodes[i].ax \/ pageNodes[i].y # pageNodes[i].ay
       /\ pageNodes[i].vx # 0 \/ pageNodes[i].vy # 0

\* coordinate a (tenths of a pixel) is c + t * scale, to the nearest tenth
onTemplate(a, c, t, scale) == Abs(a * 1000 - (c * 100 + t * scale)) <= 500

\* C17: once variant A has started there are treeCount trees of 10 nodes,
\* each scale lies in [minScale, maxScale], and the anchor of the i-th node
\* of a tree is its stored centre plus its scale times TREE_TEMPLATE[i]
C17_TreeInvariant ==
  (variant = "A" /\ loaded /\ canvas) =>
     /\ Len(trees) = treeCount
     /\ \A t \in DOMAIN trees :
          /\ Len(trees[t].nodes) = 10
          /\ trees[t].scale >= minScale * 100
          /\ trees[t].scale <= maxScale * 100
          /\ \A i \in DOMAIN trees[t].nodes :
               /\ onTemplate(trees[t].nodes[i].ax, trees[t].cx,
                             TREE_TEMPLATE[i][1], trees[t].scale)
               /\ onTemplate(trees[t].nodes[i].ay, trees[t].cy,
                             TREE_TEMPLATE[i][2], trees[t].scale)

\* variant A after a resize, a pointer move and a frame that moved a node
C17_Witness ==
  /\ variant = "A" /\ lastOp = "frame" /\ gen >= 2 /\ mouse.active
  /\ Len(trees) = treeCount
  /\ \E t \in DOMAIN trees : \E i \in DOMAIN trees[t].nodes :
       trees[t].nodes[i].y # trees[t].nodes[i].ay

regenRan ==
  \/ lastOp' = "resize" /\ events' = events + 1
  \/ lastOp' = "load" /\ ~loaded /\ loaded'

\* C18: an inactive pointer always stores (-9999, -9999); active becomes
\* true only in onMove and false only in onLeave, which resets the
\* coordinates; resize and frames leave the pointer state alone
C18_PointerSentinel ==
  /\ [](~mouse.active => mouse.x = Sentinel /\ mouse.y = Sentinel)
  /\ [][(~mouse.active /\ mouse'.active) =>
          lastOp' = "move" /\ events' = events + 1]_vars
  /\ [][(mouse.active /\ ~mouse'.active) =>
          lastOp' = "leave" /\ events' = events + 1 /\ mouse' = mouseOff]_vars
  /\ [][(frameRan \/ regenRan) => mouse' = mouse]_vars

\* the pointer has left after a frame in which it pushed a node
C18_Witness ==
  /\ lastOp = "leave" /\ ~mouse.active
  /\ mouse.x = Sentinel /\ mouse.y = Sentinel
  /\ \E i \in DOMAIN applied : applied[i].f > 0

====
